---- MODULE Spec2Model ----
(***************************************************************************)
(* Model of teetime.py: the Sweetspot tee time finder.                     *)
(*                                                                         *)
(* Three specifications share the variables below:                         *)
(*   SpecTz   the window builder, the calendar fallback and the local-time *)
(*            converter, applied to every civil date of a range of years;  *)
(*   SpecWin  the time-of-day window check in_window;                      *)
(*   Spec     the batch loop of __main__ with process_course.              *)
(*                                                                         *)
(* Text is modelled as a sequence of one-character strings, a datetime as  *)
(* its wall-clock date, its millisecond of the day and its UTC offset.     *)
(***************************************************************************)
EXTENDS Integers, Sequences, FiniteSets

VARIABLES
    tzdb,        \* TRUE iff ZoneInfo("Europe/Stockholm") can be constructed
    date,        \* the date_str of the current call, as a civil date
    win,         \* (start, end) returned by the last _build_api_window_utc
    prevWin,     \* the window returned for the previous date of the list
    tzW,         \* UTC offset (hours) the window builder gave local midnight
    start_iso,   \* the instant last handed to _to_local_hhmm
    hhmm,        \* the text last returned by _to_local_hhmm
    tzL,         \* UTC offset (hours) the converter applied
    fixed,       \* argument and locals of the last _stockholm_fixed_tz call
    args,        \* the parsed command line
    after_min,   \* _tmin(args.after)
    before_min,  \* _tmin(args.before)
    probe,       \* the text last handed to in_window
    passed,      \* the result of that in_window call
    date_list,   \* the dates of the batch
    pairs,       \* the (course, date) pairs in processing order
    idx,         \* number of pairs whose processing has begun
    items,       \* the records fetched for the current pair
    out,         \* the sorted slot list of the current pair
    printed,     \* what has been printed, one entry per report or error
    pc           \* position of the main program

vars == <<tzdb, date, win, prevWin, tzW, start_iso, hhmm, tzL, fixed, args,
          after_min, before_min, probe, passed, date_list, pairs, idx, items,
          out, printed, pc>>

tzVars == <<tzdb, date, win, prevWin, tzW, start_iso, hhmm, tzL, fixed>>
winVars == <<after_min, before_min, probe, passed>>
mainVars == <<args, date_list, pairs, idx, items, out, printed, pc>>

\* An optional value is a sequence of length at most one.
None == <<>>
Some(x) == <<x>>

(***************************************************************************)
(* Bounds of the model.                                                    *)
(***************************************************************************)
YearMin == 2023
NumYears == 3
MaxItems == 2
MaxDates == 2

Years == YearMin .. (YearMin + NumYears - 1)

(***************************************************************************)
(* The proleptic Gregorian calendar of the datetime and calendar modules.  *)
(***************************************************************************)
isleap(y) == (y % 4 = 0) /\ ((y % 100 # 0) \/ (y % 400 = 0))

mdays == <<31, 28, 31, 30, 31, 30, 31, 31, 30, 31, 30, 31>>

\* calendar.monthrange(y, m)[1]
monthrange1(y, m) == mdays[m] + (IF m = 2 /\ isleap(y) THEN 1 ELSE 0)

days_before_year(y) ==
    LET p == y - 1 IN p * 365 + (p \div 4) - (p \div 100) + (p \div 400)

DAYS_BEFORE_MONTH == <<0, 31, 59, 90, 120, 151, 181, 212, 243, 273, 304, 334>>

days_before_month(y, m) ==
    DAYS_BEFORE_MONTH[m] + (IF m > 2 /\ isleap(y) THEN 1 ELSE 0)

\* date.toordinal()
toordinal(d) == days_before_year(d.year) + days_before_month(d.year, d.month) + d.day

\* date.weekday(): Monday = 0 ... Sunday = 6
weekday(d) == (toordinal(d) + 6) % 7

Date(y, m, d) == [year |-> y, month |-> m, day |-> d]

DI400Y == days_before_year(401)
DI100Y == days_before_year(101)
DI4Y == days_before_year(5)

\* date.fromordinal(n), as datetime._ord2ymd computes it
fromordinal(n) ==
    LET n0 == n - 1
        n400 == n0 \div DI400Y
        r400 == n0 % DI400Y
        n100 == r400 \div DI100Y
        r100 == r400 % DI100Y
        n4 == r100 \div DI4Y
        r4 == r100 % DI4Y
        n1 == r4 \div 365
        r1 == r4 % 365
        year == n400 * 400 + 1 + n100 * 100 + n4 * 4 + n1
        leapyear == n1 = 3 /\ (n4 # 24 \/ n100 = 3)
        m0 == (r1 + 50) \div 32
        p0 == days_before_month(IF leapyear THEN 4 ELSE 1, m0)
        month == IF p0 > r1 THEN m0 - 1 ELSE m0
        preceding == days_before_month(IF leapyear THEN 4 ELSE 1, month)
    IN  IF n1 = 4 \/ n100 = 4
        THEN Date(year - 1, 12, 31)
        ELSE Date(year, month, r1 - preceding + 1)

\* date comparison d1 <= d2
DateLE(d1, d2) == toordinal(d1) <= toordinal(d2)

DayMs == 24 * 60 * 60 * 1000
HourMs == 60 * 60 * 1000

\* An aware datetime: wall-clock date, millisecond of the day, UTC offset in
\* hours.
DT(d, tod, off) == [date |-> d, tod |-> tod, off |-> off]

\* datetime + timedelta(milliseconds = delta): wall-clock arithmetic
AddMs(dt, delta) ==
    LET total == dt.tod + delta
        shift == IF total >= 0 THEN total \div DayMs
                 ELSE -(((-total) + DayMs - 1) \div DayMs)
    IN  DT(fromordinal(toordinal(dt.date) + shift), total - shift * DayMs, dt.off)

\* dt.astimezone(timezone(timedelta(hours = off)))
astimezone(dt, off) == [AddMs(dt, (off - dt.off) * HourMs) EXCEPT !.off = off]

(***************************************************************************)
(* Timezone resolution.                                                    *)
(***************************************************************************)
\* The last Sunday of a month, by definition: the Sunday of the month that
\* no later Sunday of the month follows.  The timezone database rule and the
\* properties use it; the program computes its own by the formula in
\* _stockholm_fixed_tz.  Tabulated for the years the model's instants touch.
LastSundayOf ==
    [y \in (YearMin - 1) .. (YearMin + NumYears), m \in {3, 10} |->
        CHOOSE d \in 1 .. monthrange1(y, m) :
            /\ weekday(Date(y, m, d)) = 6
            /\ \A e \in (d + 1) .. monthrange1(y, m) : weekday(Date(y, m, e)) # 6]

LastSunday(y, m) == LastSundayOf[y, m]

\* _stockholm_fixed_tz with the first day of summer time left out of the
\* interval (< for the first <= of the comparison).
stockholm_fixed_tz_open_start(local_date) ==
    LET y == local_date.date.year
        last_dom_mar == monthrange1(y, 3)
        d_mar == Date(y, 3, last_dom_mar)
        start_dst == last_dom_mar - ((weekday(d_mar) - 6) % 7)
        last_dom_oct == monthrange1(y, 10)
        d_oct == Date(y, 10, last_dom_oct)
        end_dst == last_dom_oct - ((weekday(d_oct) - 6) % 7)
        in_dst == /\ ~DateLE(local_date.date, Date(y, 3, start_dst))
                  /\ DateLE(local_date.date, Date(y, 10, end_dst))
    IN  [arg |-> local_date.date, start_dst |-> start_dst, end_dst |-> end_dst,
         hours |-> IF in_dst THEN 2 ELSE 1]

\* _stockholm_fixed_tz stepping back by the weekday itself, as if the week
\* began on Sunday.
stockholm_fixed_tz_sunday0(local_date) ==
    LET y == local_date.date.year
        last_dom_mar == monthrange1(y, 3)
        d_mar == Date(y, 3, last_dom_mar)
        start_dst == last_dom_mar - (weekday(d_mar) % 7)
        last_dom_oct == monthrange1(y, 10)
        d_oct == Date(y, 10, last_dom_oct)
        end_dst == last_dom_oct - (weekday(d_oct) % 7)
        in_dst == /\ DateLE(Date(y, 3, start_dst), local_date.date)
                  /\ DateLE(local_date.date, Date(y, 10, end_dst))
    IN  [arg |-> local_date.date, start_dst |-> start_dst, end_dst |-> end_dst,
         hours |-> IF in_dst THEN 2 ELSE 1]

\* SweetspotClient._stockholm_fixed_tz(local_date): the hours of the returned
\* fixed offset, with the argument's date and the locals start_dst, end_dst.
_stockholm_fixed_tz(local_date) ==
    LET y == local_date.date.year
        last_dom_mar == monthrange1(y, 3)
        d_mar == Date(y, 3, last_dom_mar)
        start_dst == last_dom_mar - ((weekday(d_mar) - 6) % 7)
        last_dom_oct == monthrange1(y, 10)
        d_oct == Date(y, 10, last_dom_oct)
        end_dst == last_dom_oct - ((weekday(d_oct) - 6) % 7)
        in_dst == /\ DateLE(Date(y, 3, start_dst), local_date.date)
                  /\ DateLE(local_date.date, Date(y, 10, end_dst))
    IN  [arg |-> local_date.date, start_dst |-> start_dst, end_dst |-> end_dst,
         hours |-> IF in_dst THEN 2 ELSE 1]

\* ZoneInfo("Europe/Stockholm").utcoffset of a wall-clock time (fold = 0):
\* summer time from 02:00 on the last Sunday of March until 03:00 on the last
\* Sunday of October.
ZoneInfoWallOffset(d, tod) ==
    LET y == d.year
        a == toordinal(Date(y, 3, LastSunday(y, 3)))
        b == toordinal(Date(y, 10, LastSunday(y, 10)))
        n == toordinal(d)
        afterSpring == n > a \/ (n = a /\ tod >= 2 * HourMs)
        beforeFall == n < b \/ (n = b /\ tod < 3 * HourMs)
    IN  IF afterSpring /\ beforeFall THEN 2 ELSE 1

\* ZoneInfo("Europe/Stockholm").fromutc: both transitions are at 01:00 UTC.
ZoneInfoUtcOffset(dt_utc) ==
    LET y == dt_utc.date.year
        a == toordinal(Date(y, 3, LastSunday(y, 3)))
        b == toordinal(Date(y, 10, LastSunday(y, 10)))
        n == toordinal(dt_utc.date)
        afterSpring == n > a \/ (n = a /\ dt_utc.tod >= HourMs)
        beforeFall == n < b \/ (n = b /\ dt_utc.tod < HourMs)
    IN  IF afterSpring /\ beforeFall THEN 2 ELSE 1

\* dt.strftime("%Y-%m-%dT%H:%M:%S.%f")[:-3] + "Z": the fields of the text
to_iso(dt) ==
    [kind |-> "iso", year |-> dt.date.year, month |-> dt.date.month,
     day |-> dt.date.day, hour |-> dt.tod \div HourMs,
     minute |-> (dt.tod % HourMs) \div 60000,
     second |-> (dt.tod % 60000) \div 1000, milli |-> dt.tod % 1000]

\* datetime.fromisoformat(start_iso.replace("Z", "+00:00")) of a text that
\* parses
fromisoformat(iso) ==
    DT(Date(iso.year, iso.month, iso.day),
       ((iso.hour * 60 + iso.minute) * 60 + iso.second) * 1000 + iso.milli, 0)

\* _build_api_window_utc without the millisecond taken off the end of the day
build_api_window_utc_no_ms(date_str, db) ==
    LET naive == DT(date_str, 0, 0)
        fx == _stockholm_fixed_tz(naive)
        tz0 == IF db THEN ZoneInfoWallOffset(date_str, 0) ELSE fx.hours
        local_day_start == DT(date_str, 0, tz0)
        wall_end == AddMs(local_day_start, DayMs)
        local_day_end ==
            IF db THEN [wall_end EXCEPT !.off = ZoneInfoWallOffset(wall_end.date, wall_end.tod)]
            ELSE wall_end
        start_utc == astimezone(local_day_start, 0)
        end_utc == astimezone(local_day_end, 0)
    IN  [start |-> to_iso(start_utc), end |-> to_iso(end_utc), tz |-> tz0,
         fixed |-> IF db THEN None ELSE Some(fx)]

\* SweetspotClient._build_api_window_utc(date_str): the pair of texts, with
\* the offset given to local midnight and the fallback call, if any.
_build_api_window_utc(date_str, db) ==
    LET naive == DT(date_str, 0, 0)
        fx == _stockholm_fixed_tz(naive)
        tz0 == IF db THEN ZoneInfoWallOffset(date_str, 0) ELSE fx.hours
        local_day_start == DT(date_str, 0, tz0)
        wall_end == AddMs(AddMs(local_day_start, DayMs), -1)
        local_day_end ==
            IF db THEN [wall_end EXCEPT !.off = ZoneInfoWallOffset(wall_end.date, wall_end.tod)]
            ELSE wall_end
        start_utc == astimezone(local_day_start, 0)
        end_utc == astimezone(local_day_end, 0)
    IN  [start |-> to_iso(start_utc), end |-> to_iso(end_utc), tz |-> tz0,
         fixed |-> IF db THEN None ELSE Some(fx)]

DigitChar == <<"0", "1", "2", "3", "4", "5", "6", "7", "8", "9">>

\* strftime("%H:%M")
strftime_HM(dt) ==
    LET h == dt.tod \div HourMs
        m == (dt.tod % HourMs) \div 60000
    IN  <<DigitChar[(h \div 10) + 1], DigitChar[(h % 10) + 1], ":",
          DigitChar[(m \div 10) + 1], DigitChar[(m % 10) + 1]>>

\* _to_local_hhmm(start_iso): raises when the text does not parse; otherwise
\* the local HH:MM text, with the offset applied and the fallback call.
_to_local_hhmm(iso, db) ==
    IF iso.kind # "iso" THEN [raised |-> TRUE]
    ELSE
    LET dt_utc == fromisoformat(iso)
        fx == _stockholm_fixed_tz(dt_utc)
        tz_local == IF db THEN ZoneInfoUtcOffset(dt_utc) ELSE fx.hours
    IN  [raised |-> FALSE, hhmm |-> strftime_HM(astimezone(dt_utc, tz_local)),
         tz |-> tz_local, fixed |-> IF db THEN None ELSE Some(fx)]

(***************************************************************************)
(* Text helpers.  A str is a sequence of one-character strings; a value of *)
(* a record field is tagged with its kind: "none" (missing or null),       *)
(* "str", "int", "bool", "dict", or "iso" (a str that is an ISO instant).  *)
(***************************************************************************)
Missing == [kind |-> "none"]
Str(chars) == [kind |-> "str", s |-> chars]
Int_(n) == [kind |-> "int", n |-> n]
Bool_(b) == [kind |-> "bool", b |-> b]

Whitespace == {" "}

UpperChars == <<"A", "B", "D", "E", "F", "G", "H", "K", "L", "M", "N", "O", "R", "T", "U", "Å">>
LowerChars == <<"a", "b", "d", "e", "f", "g", "h", "k", "l", "m", "n", "o", "r", "t", "u", "å">>

\* str.lower() of one character
LowerChar(c) ==
    IF \E i \in 1 .. Len(UpperChars) : UpperChars[i] = c
    THEN LowerChars[CHOOSE i \in 1 .. Len(UpperChars) : UpperChars[i] = c]
    ELSE c

\* str.lower()
lower(chars) == [i \in 1 .. Len(chars) |-> LowerChar(chars[i])]

\* str.strip()
strip(chars) ==
    LET keep == {i \in 1 .. Len(chars) : chars[i] \notin Whitespace} IN
    IF keep = {} THEN <<>>
    ELSE LET lo == CHOOSE i \in keep : \A j \in keep : i <= j
             hi == CHOOSE i \in keep : \A j \in keep : i >= j
         IN  SubSeq(chars, lo, hi)

\* _s(v)
_s(v) == IF v.kind = "str" THEN lower(strip(v.s)) ELSE <<>>

\* str.split(":")
RECURSIVE split(_)
split(chars) ==
    IF chars = <<>> THEN << <<>> >>
    ELSE LET rest == split(Tail(chars)) IN
         IF Head(chars) = ":" THEN << <<>> >> \o rest
         ELSE << <<Head(chars)>> \o Head(rest) >> \o Tail(rest)

DigitOf(c) == (CHOOSE i \in 1 .. 10 : DigitChar[i] = c) - 1

RECURSIVE DigitsValue(_)
DigitsValue(chars) ==
    IF chars = <<>> THEN 0
    ELSE DigitsValue(SubSeq(chars, 1, Len(chars) - 1)) * 10 + DigitOf(chars[Len(chars)])

\* int(text) for unsigned decimal text, surrounding whitespace allowed: the
\* value, or None where int raises ValueError.
int(chars) ==
    LET t == strip(chars) IN
    IF t = <<>> \/ \E i \in 1 .. Len(t) : \A j \in 1 .. 10 : DigitChar[j] # t[i]
    THEN None
    ELSE Some(DigitsValue(t))

\* _tmin(hhmm): the argument is None (the empty sequence stands for both
\* None and "") or a str; the result is None or Some(minutes).
_tmin(hm) ==
    IF hm = <<>> THEN None
    ELSE LET parts == split(hm) IN
         IF Len(parts) # 2 THEN None
         ELSE IF int(parts[1]) = None \/ int(parts[2]) = None THEN None
         ELSE Some(int(parts[1])[1] * 60 + int(parts[2])[1])

\* in_window(hhmm) with the bounds in the closure reading zero as "no bound"
in_window_truthy(h, amin, bmin) ==
    LET t == _tmin(h) IN
    IF t = None THEN FALSE
    ELSE IF amin # None /\ amin[1] # 0 /\ t[1] < amin[1] THEN FALSE
    ELSE IF bmin # None /\ bmin[1] # 0 /\ t[1] > bmin[1] THEN FALSE
    ELSE TRUE

\* in_window(hhmm), with after_min and before_min of its closure
in_window(h, amin, bmin) ==
    LET t == _tmin(h) IN
    IF t = None THEN FALSE
    ELSE IF amin # None /\ t[1] < amin[1] THEN FALSE
    ELSE IF bmin # None /\ t[1] > bmin[1] THEN FALSE
    ELSE TRUE

(***************************************************************************)
(* SpecTz: the window builder and the converter on every date of Years.    *)
(***************************************************************************)
AllDates ==
    {dd \in {Date(y, m, d) : y \in Years, m \in 1 .. 12, d \in 1 .. 31} :
        dd.day <= monthrange1(dd.year, dd.month)}

NextDay(d) == fromordinal(toordinal(d) + 1)

\* The instant delta milliseconds after the instant of a text
InstantPlus(a, delta) == to_iso(AddMs(fromisoformat(a), delta))

\* Milliseconds from the start of a window to its end
Duration(w) ==
    LET x == fromisoformat(w.start)
        y == fromisoformat(w.end)
    IN  (toordinal(y.date) - toordinal(x.date)) * DayMs + y.tod - x.tod

\* Hours after the start of a window at which the converter is tried: the
\* hours around the change of the UTC date and of the offset, noon and the
\* last hour.
SampleHours == {0, 1, 2, 3, 12, 23}

\* The instants of a window the converter is applied to: its start plus
\* each of SampleHours that lies in the window, and its end.
Samples(w) ==
    {InstantPlus(w.start, k * HourMs) : k \in {h \in SampleHours : h * HourMs <= Duration(w)}}
    \cup {w.end}

IdleWin == after_min = None /\ before_min = None /\ probe = None /\ passed = FALSE

IdleMain ==
    /\ args = None /\ date_list = <<>> /\ pairs = <<>> /\ idx = 0
    /\ items = <<>> /\ out = <<>> /\ printed = <<>> /\ pc = "idle"

InitTz ==
    /\ tzdb \in BOOLEAN
    /\ date \in AllDates
    /\ win = None /\ prevWin = None /\ tzW = None
    /\ start_iso = None /\ hhmm = None /\ tzL = None /\ fixed = None
    /\ IdleWin /\ IdleMain

\* The first call of _build_api_window_utc, for the first date of the list
BuildWindow ==
    /\ win = None
    /\ LET w == _build_api_window_utc(date, tzdb) IN
        /\ win' = Some([start |-> w.start, end |-> w.end])
        /\ tzW' = Some(w.tz)
        /\ fixed' = w.fixed
    /\ UNCHANGED <<tzdb, date, prevWin, start_iso, hhmm, tzL>>
    /\ UNCHANGED <<winVars, mainVars>>

\* The call of _build_api_window_utc for the following day
NextDate ==
    /\ win # None
    /\ NextDay(date).year \in Years
    /\ date' = NextDay(date)
    /\ prevWin' = win
    /\ LET w == _build_api_window_utc(date', tzdb) IN
        /\ win' = Some([start |-> w.start, end |-> w.end])
        /\ tzW' = Some(w.tz)
        /\ fixed' = w.fixed
    /\ start_iso' = None /\ hhmm' = None /\ tzL' = None
    /\ UNCHANGED tzdb
    /\ UNCHANGED <<winVars, mainVars>>

\* A call of _to_local_hhmm on an instant of the current window
ToLocal ==
    /\ win # None
    /\ \E t \in Samples(win[1]) :
        LET r == _to_local_hhmm(t, tzdb) IN
        /\ start_iso' = Some(t)
        /\ hhmm' = r.hhmm
        /\ tzL' = Some(r.tz)
        /\ fixed' = r.fixed
    /\ UNCHANGED <<tzdb, date, win, prevWin, tzW>>
    /\ UNCHANGED <<winVars, mainVars>>

NextTz == BuildWindow \/ NextDate \/ ToLocal

SpecTz == InitTz /\ [][NextTz]_vars

(***************************************************************************)
(* Properties of the timezone engine, checked under SpecTz.                *)
(***************************************************************************)
Text0000 == <<"0", "0", ":", "0", "0">>
Text2359 == <<"2", "3", ":", "5", "9">>

\* C1: with the calendar fallback in use, the start of the window of a date
\* converts back to local 00:00 and its end to local 23:59.
C1_RoundTrip ==
    (~tzdb /\ win # None /\ start_iso # None) =>
        /\ (start_iso[1] = win[1].start => hhmm = Text0000)
        /\ (start_iso[1] = win[1].end => hhmm = Text2359)

\* C5: with the calendar fallback in use, the offset the converter applies
\* to an instant of the window of a date is the offset the window builder
\* applied to that date.
C5_OffsetAgreement ==
    (~tzdb /\ win # None /\ start_iso # None) => tzL = tzW

\* The closed interval [last Sunday of March, last Sunday of October] of the
\* year of a date
InSummerInterval(d) ==
    /\ DateLE(Date(d.year, 3, LastSunday(d.year, 3)), d)
    /\ DateLE(d, Date(d.year, 10, LastSunday(d.year, 10)))

\* C7: the calendar fallback returns +2 hours exactly for the dates from the
\* last Sunday of March to the last Sunday of October of their year, both
\* included, and +1 hour for all others; 2024-03-30 gives +1 and 2024-03-31
\* gives +2.
C7_FallbackOffset ==
    fixed # None =>
        /\ fixed[1].hours = (IF InSummerInterval(fixed[1].arg) THEN 2 ELSE 1)
        /\ (fixed[1].arg = Date(2024, 3, 30) => fixed[1].hours = 1)
        /\ (fixed[1].arg = Date(2024, 3, 31) => fixed[1].hours = 2)

\* C7 witness: the fallback was called on the last Sunday of March itself.
C7_Witness ==
    /\ fixed # None
    /\ fixed[1].arg.month = 3
    /\ fixed[1].arg.day = LastSunday(fixed[1].arg.year, 3)
    /\ fixed[1].hours = 2

\* C8: the days the fallback computes for March and October are Sundays and
\* lie in the last seven days of their month.
C8_LastSundayFormula ==
    fixed # None =>
        LET y == fixed[1].arg.year
            s == fixed[1].start_dst
            e == fixed[1].end_dst
        IN  /\ s >= monthrange1(y, 3) - 6 /\ s <= monthrange1(y, 3)
            /\ e >= monthrange1(y, 10) - 6 /\ e <= monthrange1(y, 10)
            /\ weekday(Date(y, 3, s)) = 6
            /\ weekday(Date(y, 10, e)) = 6

\* C8 witness: the fallback stepped back from a month end that is no Sunday.
C8_Witness ==
    /\ fixed # None
    /\ fixed[1].start_dst < monthrange1(fixed[1].arg.year, 3)
    /\ fixed[1].end_dst < monthrange1(fixed[1].arg.year, 10)

\* C10 as stated: with the calendar fallback in use, the window of the day
\* after a date starts one millisecond after the window of the date ends.
C10_Partition ==
    (~tzdb /\ prevWin # None) => win[1].start = InstantPlus(prevWin[1].end, 1)

\* C10 amended: that holds unless the second date is the last Sunday of
\* March, where its window starts one hour earlier (the windows overlap by
\* an hour), or the day after the last Sunday of October, where it starts
\* one hour later (an hour belongs to no window).
C10_PartitionAmended ==
    (~tzdb /\ prevWin # None) =>
        LET next == InstantPlus(prevWin[1].end, 1) IN
        IF date = Date(date.year, 3, LastSunday(date.year, 3))
        THEN InstantPlus(win[1].start, HourMs) = next
        ELSE IF date = NextDay(Date(date.year, 10, LastSunday(date.year, 10)))
        THEN win[1].start = InstantPlus(next, HourMs)
        ELSE win[1].start = next

\* C10 witness: the windows of two consecutive summer dates have been built.
C10_Witness ==
    /\ ~tzdb /\ prevWin # None /\ tzW = Some(2)
    /\ win[1].start = InstantPlus(prevWin[1].end, 1)

(***************************************************************************)
(* SpecWin: the time-of-day window check.                                  *)
(***************************************************************************)
\* The text HH:MM of a minute of the day
TimeText(n) ==
    <<DigitChar[((n \div 60) \div 10) + 1], DigitChar[((n \div 60) % 10) + 1], ":",
      DigitChar[((n % 60) \div 10) + 1], DigitChar[((n % 60) % 10) + 1]>>

\* Minutes of the day used for the --after and --before arguments
BoundMinutes == {0, 450, 480, 1439}

\* Values of --after and --before: absent, a time, or a text that is no time
TimeArgs == {None, <<"8", "a", "m">>} \cup {TimeText(n) : n \in BoundMinutes}

\* Minutes of the day of the local times handed to in_window
ProbeMinutes == {0, 1, 449, 450, 451, 479, 480, 481, 1438, 1439}

Args(players, after, before, course, dates) ==
    [players |-> players, after |-> after, before |-> before, course |-> course,
     dates |-> dates]

InitWin ==
    /\ \E a \in TimeArgs, b \in TimeArgs :
        /\ args = Some(Args(1, a, b, None, <<>>))
        /\ after_min = _tmin(a)
        /\ before_min = _tmin(b)
    /\ probe = None /\ passed = FALSE
    /\ tzdb = FALSE /\ date = None /\ win = None /\ prevWin = None /\ tzW = None
    /\ start_iso = None /\ hhmm = None /\ tzL = None /\ fixed = None
    /\ date_list = <<>> /\ pairs = <<>> /\ idx = 0
    /\ items = <<>> /\ out = <<>> /\ printed = <<>> /\ pc = "idle"

\* A call of in_window
InWindow ==
    /\ \E n \in ProbeMinutes :
        /\ probe' = Some(TimeText(n))
        /\ passed' = in_window(TimeText(n), after_min, before_min)
    /\ UNCHANGED <<after_min, before_min>>
    /\ UNCHANGED <<tzVars, mainVars>>

NextWin == InWindow

SpecWin == InitWin /\ [][NextWin]_vars

\* The minute of the day a text HH:MM was written from
MinuteOf(text) == CHOOSE n \in 0 .. 1439 : TimeText(n) = text

IsTime(text) == \E n \in 0 .. 1439 : TimeText(n) = text

\* C9: a local time passes the window check iff it is not before the after
\* bound, when one is set, and not after the before bound, when one is set;
\* both bounds are inclusive, a bound of 00:00 counts as set, and 07:30 is
\* excluded by after = 08:00 and included without bounds.
C9_WindowInclusion ==
    probe # None =>
        LET t == MinuteOf(probe[1])
            a == args[1].after
            b == args[1].before
        IN  /\ passed = (/\ (IsTime(a) => t >= MinuteOf(a))
                         /\ (IsTime(b) => t <= MinuteOf(b)))
            /\ (t = 450 /\ a = TimeText(480) => ~passed)
            /\ (t = 450 /\ a = None /\ b = None => passed)

\* C9 witness: the time 00:00 passed a before bound of 00:00.
C9_Witness ==
    /\ probe # None /\ args[1].before = TimeText(0) /\ args[1].after = None
    /\ probe[1] = TimeText(0) /\ passed

(***************************************************************************)
(* Spec: the batch loop of __main__ and process_course.                    *)
(***************************************************************************)
\* The names of COURSE_UUIDS, in the order of the table
COURSE_NAMES ==
    <<"brållsta 18 hål", "bodaholm", "gripsholm", "international",
      "kings course", "queens", "kyssinge", "lindö dal", "lindö park",
      "lindö äng", "riksten", "stannum", "waxholm">>

Marker == <<"b", "a", "n", "u", "n", "d", "e", "r", "h", "å", "l", "l">>
TextFull == <<"f", "u", "l", "l">>
FullyBooked ==
    {<<"f", "u", "l", "l", "b", "o", "k", "a", "d">>,
     <<"f", "u", "l", "l", "b", "o", "k", "a", "t">>,
     <<"f", "u", "l", "l", "b", "o", "k", "a", "d", "e">>}

Dict(name, custom_name, display, tee_time_bookable) ==
    [kind |-> "dict", name |-> name, custom_name |-> custom_name,
     display |-> display, tee_time_bookable |-> tee_time_bookable]

EmptyDict == Dict(Missing, Missing, Missing, Missing)

\* bool(v): the truth value Python gives a field value
Truthy(v) ==
    CASE v.kind = "none" -> FALSE
      [] v.kind = "str" -> v.s # <<>>
      [] v.kind = "int" -> v.n # 0
      [] v.kind = "bool" -> v.b
      [] v.kind = "dict" -> v # EmptyDict
      [] OTHER -> TRUE

\* The category rules of process_course: TRUE iff the record is skipped
\* before its start instant is looked at.
SkippedByCategory(it) ==
    LET cat == IF Truthy(it.category) THEN it.category ELSE EmptyDict IN
    IF cat.kind = "dict"
    THEN \/ _s(cat.name) = Marker
         \/ _s(cat.custom_name) = Marker
         \/ _s(it.name) = Marker
         \/ _s(cat.display) = TextFull
         \/ _s(cat.custom_name) \in FullyBooked
         \/ (cat.tee_time_bookable.kind = "bool" /\ ~cat.tee_time_bookable.b)
    ELSE (IF _s(it.name) # <<>> THEN _s(it.name) ELSE _s(it.category)) = Marker

\* it.get("from") or it.get("start")
StartOf(it) == IF Truthy(it.from) THEN it.from ELSE it.start

\* The coercion of available_slots to an int
Avail(v) ==
    CASE v.kind = "int" -> v.n
      [] v.kind = "bool" -> IF v.b THEN 1 ELSE 0
      [] v.kind = "str" -> IF int(v.s) = None THEN 0 ELSE int(v.s)[1]
      [] OTHER -> 0

\* The key of the sort of out
SortKey(slot) ==
    LET t == _tmin(slot.hhmm) IN
    IF t = None \/ t[1] = 0 THEN 1000000 ELSE t[1]

\* list.sort(key = ...): a stable sort
RECURSIVE sort(_)
sort(slots) ==
    IF slots = <<>> THEN <<>>
    ELSE LET n == Len(slots)
             rest == sort(SubSeq(slots, 1, n - 1))
             x == slots[n]
             k == Cardinality({i \in 1 .. Len(rest) : SortKey(rest[i]) <= SortKey(x)})
         IN  SubSeq(rest, 1, k) \o <<x>> \o SubSeq(rest, k + 1, Len(rest))

\* The loop of process_course over the fetched items, from item i on, with
\* the slots collected so far: the unsorted slot list, or the exception a
\* record raised.
RECURSIVE Collect(_, _, _, _, _, _, _)
Collect(its, i, acc, players, amin, bmin, db) ==
    IF i > Len(its) THEN [raised |-> FALSE, out |-> acc]
    ELSE
    LET it == its[i] IN
    IF SkippedByCategory(it) THEN Collect(its, i + 1, acc, players, amin, bmin, db)
    ELSE IF ~Truthy(StartOf(it)) THEN Collect(its, i + 1, acc, players, amin, bmin, db)
    ELSE
    LET r == _to_local_hhmm(StartOf(it), db) IN
    IF r.raised THEN [raised |-> TRUE, out |-> <<>>]
    ELSE IF ~in_window(r.hhmm, amin, bmin) THEN Collect(its, i + 1, acc, players, amin, bmin, db)
    ELSE IF Avail(it.available_slots) >= players
    THEN Collect(its, i + 1, Append(acc, [hhmm |-> r.hhmm, avail |-> Avail(it.available_slots)]),
                 players, amin, bmin, db)
    ELSE Collect(its, i + 1, acc, players, amin, bmin, db)

\* process_course after the fetch: the sorted slot list that is printed, or
\* the exception raised.
process_course(its, players, amin, bmin, db) ==
    LET c == Collect(its, 1, <<>>, players, amin, bmin, db) IN
    IF c.raised THEN c ELSE [raised |-> FALSE, out |-> sort(c.out)]

\* A record of the API
Rec(category, name, from, start, available_slots) ==
    [category |-> category, name |-> name, from |-> from, start |-> start,
     available_slots |-> available_slots]

\* The first date of the batch; the instants of the records lie on it.
BatchDate == Date(2024, 6, 15)

\* The instant at which the local time of BatchDate is n minutes after
\* midnight (summer time: UTC + 2)
At(n) == to_iso(AddMs(DT(BatchDate, 0, 0), (n - 120) * 60000))

TextMorgon == <<"M", "o", "r", "g", "o", "n">>
TextMarker == <<" ", "B", "a", "n", "u", "n", "d", "e", "r", "h", "Å", "L", "L", " ">>
TextSoon == <<"s", "o", "o", "n">>
PlainCat == Dict(Str(<<"G", "r", "e", "e", "n", "f", "e", "e">>), Missing, Missing, Bool_(TRUE))

\* The records a fetch may return
Records ==
    { Rec(Missing, Missing, At(0), Missing, Int_(4)),
      Rec(PlainCat, Str(TextMorgon), At(480), Missing, Int_(4)),
      Rec(PlainCat, Missing, At(450), Missing, Str(<<"2">>)),
      Rec(Str(TextMarker), Str(TextMorgon), At(600), Missing, Int_(4)),
      Rec(Str(TextMarker), Missing, At(600), Missing, Int_(4)),
      Rec(Str(TextMorgon), Str(TextMarker), At(600), Missing, Int_(4)),
      Rec(Dict(Str(TextMarker), Missing, Missing, Missing), Missing, At(600), Missing, Int_(4)),
      Rec(Dict(Missing, Missing, Str(<<"F", "u", "l", "l">>), Missing), Missing, At(600), Missing, Int_(4)),
      Rec(Dict(Missing, Str(<<"F", "u", "l", "l", "b", "o", "k", "a", "d">>), Missing, Missing),
          Missing, At(600), Missing, Int_(4)),
      Rec(Dict(Missing, Missing, Missing, Bool_(FALSE)), Missing, At(600), Missing, Int_(4)),
      Rec(PlainCat, Missing, Str(TextSoon), Missing, Int_(4)),
      Rec(PlainCat, Missing, Missing, At(480), Missing),
      Rec(PlainCat, Missing, Missing, Missing, Int_(4)) }

RECURSIVE SeqsUpTo(_, _)
SeqsUpTo(S, n) ==
    IF n = 0 THEN {<<>>}
    ELSE LET shorter == SeqsUpTo(S, n - 1) IN
         shorter \cup {Append(q, x) : q \in shorter, x \in S}

\* What a fetch may return
Fetched == SeqsUpTo(Records, MaxItems)

\* Values of --players tried, of the choices 1 to 4
PlayerChoices == {1, 3}

\* Values of --course tried: absent, a name of the table, an unknown name
CourseChoices == {None, Some("queens"), Some("nowhere")}

\* The first n dates from BatchDate on
RECURSIVE DatesFrom(_, _)
DatesFrom(d, n) == IF n = 0 THEN <<>> ELSE <<d>> \o DatesFrom(NextDay(d), n - 1)

\* The state when the try block of __main__ is entered
Init ==
    /\ tzdb \in BOOLEAN
    /\ \E p \in PlayerChoices, a \in {None, TimeText(480)}, c \in CourseChoices,
          n \in 1 .. MaxDates :
        /\ args = Some(Args(p, a, None, c, DatesFrom(BatchDate, n)))
        /\ date_list = DatesFrom(BatchDate, n)
        /\ after_min = _tmin(a)
        /\ before_min = _tmin(None)
    /\ pairs = <<>> /\ idx = 0 /\ items = <<>> /\ out = <<>> /\ printed = <<>>
    /\ pc = "start"
    /\ date = None /\ win = None /\ prevWin = None /\ tzW = None
    /\ start_iso = None /\ hhmm = None /\ tzL = None /\ fixed = None
    /\ probe = None /\ passed = FALSE

\* resolve_course_uuid(course) for a name that is a name of the table or
\* matches none: the entry found, or None where KeyError is raised.
resolve_course_uuid(course) ==
    IF \E i \in 1 .. Len(COURSE_NAMES) : COURSE_NAMES[i] = course
    THEN Some(course) ELSE None

Pair(course, d) == [course |-> course, date |-> d]

\* The (course, date) pairs in the order the loops of __main__ visit them
RECURSIVE AllCoursePairs(_)
AllCoursePairs(dates) ==
    IF dates = <<>> THEN <<>>
    ELSE [i \in 1 .. Len(COURSE_NAMES) |-> Pair(COURSE_NAMES[i], Head(dates))]
         \o AllCoursePairs(Tail(dates))

ErrorLine(i, cause) == [kind |-> "error", pair |-> i, cause |-> cause]
ReportLine(i) == [kind |-> "report", pair |-> i, cause |-> "none"]

\* The course is resolved: an unknown course ends the run with an error.
Resolve ==
    /\ pc = "start"
    /\ LET c == args[1].course IN
       IF c = None
       THEN /\ pairs' = AllCoursePairs(date_list)
            /\ pc' = "loop"
            /\ printed' = printed
       ELSE IF resolve_course_uuid(c[1]) = None
       THEN /\ pairs' = pairs
            /\ pc' = "done"
            /\ printed' = Append(printed, ErrorLine(0, "course"))
       ELSE /\ pairs' = [i \in 1 .. Len(date_list) |-> Pair(c[1], date_list[i])]
            /\ pc' = "loop"
            /\ printed' = printed
    /\ UNCHANGED <<args, date_list, idx, items, out>>
    /\ UNCHANGED <<tzVars, winVars>>

\* process_course is entered for the next pair and calls fetch_tee_times,
\* which builds the window of the date and queries the API: the call raises
\* and the except clause of __main__ prints the error and the run ends, or
\* it returns records.
Fetch ==
    /\ pc = "loop"
    /\ idx < Len(pairs)
    /\ idx' = idx + 1
    /\ date' = pairs[idx + 1].date
    /\ LET w == _build_api_window_utc(pairs[idx + 1].date, tzdb) IN
       win' = Some([start |-> w.start, end |-> w.end])
    /\ \/ /\ items' = <<>>
          /\ printed' = Append(printed, ErrorLine(idx + 1, "fetch"))
          /\ pc' = "done"
       \/ /\ items' \in Fetched
          /\ printed' = printed
          /\ pc' = "fetched"
    /\ UNCHANGED <<args, date_list, pairs, out>>
    /\ UNCHANGED <<tzdb, prevWin, tzW, start_iso, hhmm, tzL, fixed>>
    /\ UNCHANGED winVars

\* The rest of process_course: the records are filtered, the slots sorted
\* and the report printed; or a record raises and the except clause of
\* __main__ prints the error and the run ends.
Report ==
    /\ pc = "fetched"
    /\ LET r == process_course(items, args[1].players, after_min, before_min, tzdb) IN
       IF r.raised
       THEN /\ out' = <<>>
            /\ printed' = Append(printed, ErrorLine(idx, "record"))
            /\ pc' = "done"
       ELSE /\ out' = r.out
            /\ printed' = Append(printed, ReportLine(idx))
            /\ pc' = "printed"
    /\ UNCHANGED <<args, date_list, pairs, idx, items>>
    /\ UNCHANGED <<tzVars, winVars>>

\* process_course returns, its locals are dropped, and the loops of __main__
\* go to the next pair or end.
Return ==
    /\ pc = "printed"
    /\ items' = <<>>
    /\ out' = <<>>
    /\ pc' = IF idx = Len(pairs) THEN "done" ELSE "loop"
    /\ UNCHANGED <<args, date_list, pairs, idx, printed>>
    /\ UNCHANGED <<tzVars, winVars>>

Next == Resolve \/ Fetch \/ Report \/ Return

Spec == Init /\ [][Next]_vars

(***************************************************************************)
(* Properties of the batch, checked under Spec.                            *)
(***************************************************************************)
\* C2: the slots of a report are in ascending order of their minutes since
\* midnight, 00:00 counting as minute 0.
C2_Ascending ==
    pc = "printed" =>
        \A i \in 1 .. (Len(out) - 1) :
            MinuteOf(out[i].hhmm) <= MinuteOf(out[i + 1].hhmm)

\* C3: when the fetch of a pair has failed, the run still handles every
\* pair of the batch: at its end each pair has its report or its error.
C3_BatchContinues ==
    (pc = "done" /\ \E j \in 1 .. Len(printed) : printed[j].cause = "fetch") =>
        \A i \in 1 .. Len(pairs) : \E j \in 1 .. Len(printed) : printed[j].pair = i

\* A record whose start instant is present and does not parse
Unparseable(it) == Truthy(StartOf(it)) /\ StartOf(it).kind # "iso"

Parseable(it) == ~Unparseable(it)

\* C4: when the fetched records hold a record whose start instant does not
\* parse, the report of the pair is still printed, and it is the report of
\* the other records.
C4_UnparseableSkipped ==
    [][(pc = "fetched" /\ \E i \in 1 .. Len(items) : Unparseable(items[i])) =>
         /\ pc' = "printed"
         /\ printed' = Append(printed, ReportLine(idx))
         /\ out' = process_course(SelectSeq(items, Parseable), args[1].players,
                                  after_min, before_min, tzdb).out]_vars

\* A record with a legacy flat category whose name or category is the
\* maintenance marker
LegacyMaintenance(it) ==
    /\ it.category.kind = "str" /\ it.category.s # <<>>
    /\ (_s(it.name) = Marker \/ _s(it.category) = Marker)

NotLegacyMaintenance(it) == ~LegacyMaintenance(it)

\* C6: a record with a legacy flat category is excluded when its name or its
\* category is the maintenance marker: the report is the report of the
\* other records.
C6_LegacyMarkerExcluded ==
    pc = "printed" =>
        out = process_course(SelectSeq(items, NotLegacyMaintenance), args[1].players,
                             after_min, before_min, tzdb).out
====
